---- MODULE Spec2Model ----
(***************************************************************************)
(* Model of spytools' process inspection (src/process): ProcessInfo::new,  *)
(* ProcessInfo::get_symbol, get_windows_symbols, is_dockerized, is_lib and *)
(* the Python / Ruby ProcessType implementations, for the four build       *)
(* targets the source distinguishes with cfg attributes.                   *)
(***************************************************************************)
EXTENDS Integers, Sequences, FiniteSets, TLC

VARIABLES
  target_os,        \* cfg(target_os): the platform the crate is built for
  runtime,          \* the type parameter T: ProcessType
  overflow_checks,  \* build profile: TRUE panics on u64 overflow, FALSE wraps
  pc,               \* position inside ProcessInfo::new
  filename,         \* process.exe() as the code holds it
  maps,             \* get_process_maps(pid): the ordered MapRange list
  parse_calls,      \* every parse_binary call made: arguments and return value
  symbol_calls,     \* every get_windows_symbols call made: arguments, source, return
  binary,           \* the local `binary`: Result<BinaryInfo, Error>
  library,          \* the local `library`: Option<BinaryInfo>
  dyld_infos,       \* get_dyld_info(pid) as observed (macOS fallback)
  mnt_ns,           \* is_dockerized(pid) as observed (linux)
  result,           \* what ProcessInfo::new returned
  query,            \* the last get_symbol call on the returned ProcessInfo
  lib_query         \* the last stand-alone is_lib call

vars == <<target_os, runtime, overflow_checks, pc, filename, maps, parse_calls,
          symbol_calls, binary, library, dyld_infos, mnt_ns, result, query,
          lib_query>>

None == [kind |-> "None"]
Some(v) == [kind |-> "Some", val |-> v]
Ok(v) == [kind |-> "Ok", val |-> v]
Err(e) == [kind |-> "Err", error |-> e]

(***************************************************************************)
(* u64 arithmetic.  A u64 is four 16-bit limbs, least significant first,   *)
(* so that addresses such as 0x7f0000000000 keep their full width.         *)
(***************************************************************************)
LimbBase == 2^16

U64(l0, l1, l2, l3) == <<l0, l1, l2, l3>>

Zero == U64(0, 0, 0, 0)

\* a + b: the wrapped sum and whether the true sum left the u64 range
U64Add(a, b) ==
  LET s1 == a[1] + b[1]
      s2 == a[2] + b[2] + (s1 \div LimbBase)
      s3 == a[3] + b[3] + (s2 \div LimbBase)
      s4 == a[4] + b[4] + (s3 \div LimbBase)
  IN  [val |-> <<s1 % LimbBase, s2 % LimbBase, s3 % LimbBase, s4 % LimbBase>>,
       overflow |-> s4 >= LimbBase]

\* a - b: the wrapped difference and whether the true difference is negative
U64Sub(a, b) ==
  LET d1 == a[1] - b[1]
      w1 == IF d1 < 0 THEN 1 ELSE 0
      d2 == a[2] - b[2] - w1
      w2 == IF d2 < 0 THEN 1 ELSE 0
      d3 == a[3] - b[3] - w2
      w3 == IF d3 < 0 THEN 1 ELSE 0
      d4 == a[4] - b[4] - w3
  IN  [val |-> <<d1 % LimbBase, d2 % LimbBase, d3 % LimbBase, d4 % LimbBase>>,
       overflow |-> d4 < 0]

\* n * 0x1000 for a small n, as a u64
Pages(n) == U64((n * 4096) % LimbBase, (n * 4096) \div LimbBase, 0, 0)

(***************************************************************************)
(* Strings.  A path or pattern literal is a TLA+ string; Chars gives its   *)
(* characters, on which comparison, case folding and matching work.        *)
(***************************************************************************)
\* the characters of each string literal the model uses
Literal(s) ==
  CASE s = "/usr/bin/python3.9" ->
         <<"/","u","s","r","/","b","i","n","/","p","y","t","h","o","n","3",".","9">>
    [] s = "/usr/bin/Python3.9" ->
         <<"/","u","s","r","/","b","i","n","/","P","y","t","h","o","n","3",".","9">>
    [] s = "/usr/bin/ruby" ->
         <<"/","u","s","r","/","b","i","n","/","r","u","b","y">>
    [] s = "/usr/bin/Ruby" ->
         <<"/","u","s","r","/","b","i","n","/","R","u","b","y">>
    [] s = "/libpython" ->
         <<"/","l","i","b","p","y","t","h","o","n">>
    [] s = "/libruby" ->
         <<"/","l","i","b","r","u","b","y">>
    [] s = ".so" ->
         <<".","s","o">>
    [] s = "dylib" ->
         <<"d","y","l","i","b">>
    [] s = "so" ->
         <<"s","o">>
    [] s = ".dll" ->
         <<".","d","l","l">>
    [] s = ".a" ->
         <<".","a">>
    [] s = "ruby" ->
         <<"r","u","b","y">>
    [] s = "python" ->
         <<"p","y","t","h","o","n">>
    [] s = "\\" ->
         <<"\\">>
    [] s = "Python" ->
         <<"P","y","t","h","o","n">>
    [] s = "Ruby" ->
         <<"R","u","b","y">>
    [] s = "Python.app" ->
         <<"P","y","t","h","o","n",".","a","p","p">>
    [] s = "Ruby.app" ->
         <<"R","u","b","y",".","a","p","p">>
    [] s = "/tmp/_MEIOqzg01/libpython2.7.so.1.0" ->
         <<"/","t","m","p","/","_","M","E","I","O","q","z","g","0","1","/","l","i","b","p","y","t","h","o","n","2",".","7",".","s","o",".","1",".","0">>
    [] s = "./libpython2.7.so" ->
         <<".","/","l","i","b","p","y","t","h","o","n","2",".","7",".","s","o">>
    [] s = "/usr/lib/libpython3.4d.so" ->
         <<"/","u","s","r","/","l","i","b","/","l","i","b","p","y","t","h","o","n","3",".","4","d",".","s","o">>
    [] s = "/usr/local/lib/libpython3.8m.so" ->
         <<"/","u","s","r","/","l","o","c","a","l","/","l","i","b","/","l","i","b","p","y","t","h","o","n","3",".","8","m",".","s","o">>
    [] s = "/usr/lib/libpython2.7u.so" ->
         <<"/","u","s","r","/","l","i","b","/","l","i","b","p","y","t","h","o","n","2",".","7","u",".","s","o">>
    [] s = "/usr/lib/libboost_python.so" ->
         <<"/","u","s","r","/","l","i","b","/","l","i","b","b","o","o","s","t","_","p","y","t","h","o","n",".","s","o">>
    [] s = "/usr/lib/x86_64-linux-gnu/libboost_python-py27.so.1.58.0" ->
         <<"/","u","s","r","/","l","i","b","/","x","8","6","_","6","4","-","l","i","n","u","x","-","g","n","u","/","l","i","b","b","o","o","s","t","_","p","y","t","h","o","n","-","p","y","2","7",".","s","o",".","1",".","5","8",".","0">>
    [] s = "/usr/lib/libboost_python-py35.so" ->
         <<"/","u","s","r","/","l","i","b","/","l","i","b","b","o","o","s","t","_","p","y","t","h","o","n","-","p","y","3","5",".","s","o">>
    [] s = "/usr/lib/libpython3.9.so.1.0" ->
         <<"/","u","s","r","/","l","i","b","/","l","i","b","p","y","t","h","o","n","3",".","9",".","s","o",".","1",".","0">>
    [] s = "./libruby2.7.so" ->
         <<".","/","l","i","b","r","u","b","y","2",".","7",".","s","o">>
    [] s = "/usr/lib/libruby3.1.so" ->
         <<"/","u","s","r","/","l","i","b","/","l","i","b","r","u","b","y","3",".","1",".","s","o">>
    [] s = "/usr/local/lib/libruby3.1.so" ->
         <<"/","u","s","r","/","l","o","c","a","l","/","l","i","b","/","l","i","b","r","u","b","y","3",".","1",".","s","o">>
    [] s = "/usr/lib/libruby2.6.so" ->
         <<"/","u","s","r","/","l","i","b","/","l","i","b","r","u","b","y","2",".","6",".","s","o">>
    [] s = "/usr/lib/libfoo_ruby.so" ->
         <<"/","u","s","r","/","l","i","b","/","l","i","b","f","o","o","_","r","u","b","y",".","s","o">>
    [] s = "/usr/lib/x86_64-linux-gnu/libfoo_ruby-27.so.1.58.0" ->
         <<"/","u","s","r","/","l","i","b","/","x","8","6","_","6","4","-","l","i","n","u","x","-","g","n","u","/","l","i","b","f","o","o","_","r","u","b","y","-","2","7",".","s","o",".","1",".","5","8",".","0">>
    [] s = "/usr/lib/libfoo_ruby-31.so" ->
         <<"/","u","s","r","/","l","i","b","/","l","i","b","f","o","o","_","r","u","b","y","-","3","1",".","s","o">>
    [] s = "/usr/lib/libruby.so.2.7" ->
         <<"/","u","s","r","/","l","i","b","/","l","i","b","r","u","b","y",".","s","o",".","2",".","7">>
    [] s = "~/Anaconda2/lib/libpython2.7.dylib" ->
         <<"~","/","A","n","a","c","o","n","d","a","2","/","l","i","b","/","l","i","b","p","y","t","h","o","n","2",".","7",".","d","y","l","i","b">>
    [] s = "/lib/libpython3.4d.dylib" ->
         <<"/","l","i","b","/","l","i","b","p","y","t","h","o","n","3",".","4","d",".","d","y","l","i","b">>
    [] s = "/usr/local/lib/libpython3.8m.dylib" ->
         <<"/","u","s","r","/","l","o","c","a","l","/","l","i","b","/","l","i","b","p","y","t","h","o","n","3",".","8","m",".","d","y","l","i","b">>
    [] s = "./libpython2.7u.dylib" ->
         <<".","/","l","i","b","p","y","t","h","o","n","2",".","7","u",".","d","y","l","i","b">>
    [] s = "/libboost_python.dylib" ->
         <<"/","l","i","b","b","o","o","s","t","_","p","y","t","h","o","n",".","d","y","l","i","b">>
    [] s = "/lib/heapq.cpython-36m-darwin.dylib" ->
         <<"/","l","i","b","/","h","e","a","p","q",".","c","p","y","t","h","o","n","-","3","6","m","-","d","a","r","w","i","n",".","d","y","l","i","b">>
    [] s = "/System/Library/Frameworks/Ruby.framework/Versions/2.6/usr/lib/libruby.2.6.dylib" ->
         <<"/","S","y","s","t","e","m","/","L","i","b","r","a","r","y","/","F","r","a","m","e","w","o","r","k","s","/","R","u","b","y",".","f","r","a","m","e","w","o","r","k","/","V","e","r","s","i","o","n","s","/","2",".","6","/","u","s","r","/","l","i","b","/","l","i","b","r","u","b","y",".","2",".","6",".","d","y","l","i","b">>
    [] s = "/lib/libruby.2.6.dylib" ->
         <<"/","l","i","b","/","l","i","b","r","u","b","y",".","2",".","6",".","d","y","l","i","b">>
    [] s = "/libboost_ruby.dylib" ->
         <<"/","l","i","b","b","o","o","s","t","_","r","u","b","y",".","d","y","l","i","b">>
    [] s = "/lib/heapq.cruby-36m-darwin.dylib" ->
         <<"/","l","i","b","/","h","e","a","p","q",".","c","r","u","b","y","-","3","6","m","-","d","a","r","w","i","n",".","d","y","l","i","b">>
    [] s = "C:\\Users\\test\\AppData\\Local\\Programs\\Python\\Python37\\python37.dll" ->
         <<"C",":","\\","U","s","e","r","s","\\","t","e","s","t","\\","A","p","p","D","a","t","a","\\","L","o","c","a","l","\\","P","r","o","g","r","a","m","s","\\","P","y","t","h","o","n","\\","P","y","t","h","o","n","3","7","\\","p","y","t","h","o","n","3","7",".","d","l","l">>
    [] s = "C:\\Users\\test\\AppData\\Local\\Programs\\Python\\Python37\\python37.DLL" ->
         <<"C",":","\\","U","s","e","r","s","\\","t","e","s","t","\\","A","p","p","D","a","t","a","\\","L","o","c","a","l","\\","P","r","o","g","r","a","m","s","\\","P","y","t","h","o","n","\\","P","y","t","h","o","n","3","7","\\","p","y","t","h","o","n","3","7",".","D","L","L">>
    [] s = "C:\\Users\\test\\AppData\\Local\\Programs\\ruby\\ruby31\\ruby31.dll" ->
         <<"C",":","\\","U","s","e","r","s","\\","t","e","s","t","\\","A","p","p","D","a","t","a","\\","L","o","c","a","l","\\","P","r","o","g","r","a","m","s","\\","r","u","b","y","\\","r","u","b","y","3","1","\\","r","u","b","y","3","1",".","d","l","l">>
    [] s = "C:\\Users\\test\\AppData\\Local\\Programs\\ruby\\ruby31\\ruby31.DLL" ->
         <<"C",":","\\","U","s","e","r","s","\\","t","e","s","t","\\","A","p","p","D","a","t","a","\\","L","o","c","a","l","\\","P","r","o","g","r","a","m","s","\\","r","u","b","y","\\","r","u","b","y","3","1","\\","r","u","b","y","3","1",".","D","L","L">>
    [] s = "/System/Library/Frameworks/Python.framework/Versions/2.7/Python" ->
         <<"/","S","y","s","t","e","m","/","L","i","b","r","a","r","y","/","F","r","a","m","e","w","o","r","k","s","/","P","y","t","h","o","n",".","f","r","a","m","e","w","o","r","k","/","V","e","r","s","i","o","n","s","/","2",".","7","/","P","y","t","h","o","n">>
    [] s = "/System/Library/Frameworks/Python.framework/Versions/2.7/Resources/Python.app/Contents/MacOS/Python" ->
         <<"/","S","y","s","t","e","m","/","L","i","b","r","a","r","y","/","F","r","a","m","e","w","o","r","k","s","/","P","y","t","h","o","n",".","f","r","a","m","e","w","o","r","k","/","V","e","r","s","i","o","n","s","/","2",".","7","/","R","e","s","o","u","r","c","e","s","/","P","y","t","h","o","n",".","a","p","p","/","C","o","n","t","e","n","t","s","/","M","a","c","O","S","/","P","y","t","h","o","n">>
    [] s = "/usr/local/Cellar/ruby@2/2.7.5_1/Frameworks/ruby.framework/Versions/2.7/Ruby" ->
         <<"/","u","s","r","/","l","o","c","a","l","/","C","e","l","l","a","r","/","r","u","b","y","@","2","/","2",".","7",".","5","_","1","/","F","r","a","m","e","w","o","r","k","s","/","r","u","b","y",".","f","r","a","m","e","w","o","r","k","/","V","e","r","s","i","o","n","s","/","2",".","7","/","R","u","b","y">>
    [] s = "/usr/local/Cellar/ruby@2/2.7.5_1/Frameworks/ruby.framework/Versions/2.7/Resources/Ruby.app/Contents/MacOS/Ruby" ->
         <<"/","u","s","r","/","l","o","c","a","l","/","C","e","l","l","a","r","/","r","u","b","y","@","2","/","2",".","7",".","5","_","1","/","F","r","a","m","e","w","o","r","k","s","/","r","u","b","y",".","f","r","a","m","e","w","o","r","k","/","V","e","r","s","i","o","n","s","/","2",".","7","/","R","e","s","o","u","r","c","e","s","/","R","u","b","y",".","a","p","p","/","C","o","n","t","e","n","t","s","/","M","a","c","O","S","/","R","u","b","y">>
    [] s = "/usr/lib/libSystem.B.dylib" ->
         <<"/","u","s","r","/","l","i","b","/","l","i","b","S","y","s","t","e","m",".","B",".","d","y","l","i","b">>
    [] s = "c:\\python37\\python37.dll" ->
         <<"c",":","\\","p","y","t","h","o","n","3","7","\\","p","y","t","h","o","n","3","7",".","d","l","l">>
    [] s = "c:\\ruby31\\x64-ucrt-ruby310.dll" ->
         <<"c",":","\\","r","u","b","y","3","1","\\","x","6","4","-","u","c","r","t","-","r","u","b","y","3","1","0",".","d","l","l">>
    [] s = "c:\\python37\\dlls\\pyexpat.pyd" ->
         <<"c",":","\\","p","y","t","h","o","n","3","7","\\","d","l","l","s","\\","p","y","e","x","p","a","t",".","p","y","d">>
    [] s = "c:\\ruby31\\libgmp-10.dll" ->
         <<"c",":","\\","r","u","b","y","3","1","\\","l","i","b","g","m","p","-","1","0",".","d","l","l">>
    [] s = "__DATA" ->
         <<"_","_","D","A","T","A">>
    [] s = "__TEXT" ->
         <<"_","_","T","E","X","T">>
    [] s = "__DATA_CONST" ->
         <<"_","_","D","A","T","A","_","C","O","N","S","T">>
    [] s = "python.app" ->
         <<"p","y","t","h","o","n",".","a","p","p">>
    [] s = "ruby.app" ->
         <<"r","u","b","y",".","a","p","p">>
    [] s = "/tmp/_meioqzg01/libpython2.7.so.1.0" ->
         <<"/","t","m","p","/","_","m","e","i","o","q","z","g","0","1","/","l","i","b","p","y","t","h","o","n","2",".","7",".","s","o",".","1",".","0">>
    [] s = "~/anaconda2/lib/libpython2.7.dylib" ->
         <<"~","/","a","n","a","c","o","n","d","a","2","/","l","i","b","/","l","i","b","p","y","t","h","o","n","2",".","7",".","d","y","l","i","b">>
    [] s = "/system/library/frameworks/ruby.framework/versions/2.6/usr/lib/libruby.2.6.dylib" ->
         <<"/","s","y","s","t","e","m","/","l","i","b","r","a","r","y","/","f","r","a","m","e","w","o","r","k","s","/","r","u","b","y",".","f","r","a","m","e","w","o","r","k","/","v","e","r","s","i","o","n","s","/","2",".","6","/","u","s","r","/","l","i","b","/","l","i","b","r","u","b","y",".","2",".","6",".","d","y","l","i","b">>
    [] s = "c:\\users\\test\\appdata\\local\\programs\\python\\python37\\python37.dll" ->
         <<"c",":","\\","u","s","e","r","s","\\","t","e","s","t","\\","a","p","p","d","a","t","a","\\","l","o","c","a","l","\\","p","r","o","g","r","a","m","s","\\","p","y","t","h","o","n","\\","p","y","t","h","o","n","3","7","\\","p","y","t","h","o","n","3","7",".","d","l","l">>
    [] s = "c:\\users\\test\\appdata\\local\\programs\\ruby\\ruby31\\ruby31.dll" ->
         <<"c",":","\\","u","s","e","r","s","\\","t","e","s","t","\\","a","p","p","d","a","t","a","\\","l","o","c","a","l","\\","p","r","o","g","r","a","m","s","\\","r","u","b","y","\\","r","u","b","y","3","1","\\","r","u","b","y","3","1",".","d","l","l">>
    [] s = "/system/library/frameworks/python.framework/versions/2.7/python" ->
         <<"/","s","y","s","t","e","m","/","l","i","b","r","a","r","y","/","f","r","a","m","e","w","o","r","k","s","/","p","y","t","h","o","n",".","f","r","a","m","e","w","o","r","k","/","v","e","r","s","i","o","n","s","/","2",".","7","/","p","y","t","h","o","n">>
    [] s = "/system/library/frameworks/python.framework/versions/2.7/resources/python.app/contents/macos/python" ->
         <<"/","s","y","s","t","e","m","/","l","i","b","r","a","r","y","/","f","r","a","m","e","w","o","r","k","s","/","p","y","t","h","o","n",".","f","r","a","m","e","w","o","r","k","/","v","e","r","s","i","o","n","s","/","2",".","7","/","r","e","s","o","u","r","c","e","s","/","p","y","t","h","o","n",".","a","p","p","/","c","o","n","t","e","n","t","s","/","m","a","c","o","s","/","p","y","t","h","o","n">>
    [] s = "/usr/local/cellar/ruby@2/2.7.5_1/frameworks/ruby.framework/versions/2.7/ruby" ->
         <<"/","u","s","r","/","l","o","c","a","l","/","c","e","l","l","a","r","/","r","u","b","y","@","2","/","2",".","7",".","5","_","1","/","f","r","a","m","e","w","o","r","k","s","/","r","u","b","y",".","f","r","a","m","e","w","o","r","k","/","v","e","r","s","i","o","n","s","/","2",".","7","/","r","u","b","y">>
    [] s = "/usr/local/cellar/ruby@2/2.7.5_1/frameworks/ruby.framework/versions/2.7/resources/ruby.app/contents/macos/ruby" ->
         <<"/","u","s","r","/","l","o","c","a","l","/","c","e","l","l","a","r","/","r","u","b","y","@","2","/","2",".","7",".","5","_","1","/","f","r","a","m","e","w","o","r","k","s","/","r","u","b","y",".","f","r","a","m","e","w","o","r","k","/","v","e","r","s","i","o","n","s","/","2",".","7","/","r","e","s","o","u","r","c","e","s","/","r","u","b","y",".","a","p","p","/","c","o","n","t","e","n","t","s","/","m","a","c","o","s","/","r","u","b","y">>
    [] s = "/usr/lib/libsystem.b.dylib" ->
         <<"/","u","s","r","/","l","i","b","/","l","i","b","s","y","s","t","e","m",".","b",".","d","y","l","i","b">>
    [] s = "__data" ->
         <<"_","_","d","a","t","a">>
    [] s = "__text" ->
         <<"_","_","t","e","x","t">>
    [] s = "__data_const" ->
         <<"_","_","d","a","t","a","_","c","o","n","s","t">>

\* every string literal the model uses, closed under to_lowercase
StringPool ==
  {"/usr/bin/python3.9",
   "/usr/bin/Python3.9",
   "/usr/bin/ruby",
   "/usr/bin/Ruby",
   "/libpython",
   "/libruby",
   ".so",
   "dylib",
   "so",
   ".dll",
   ".a",
   "ruby",
   "python",
   "\\",
   "Python",
   "Ruby",
   "Python.app",
   "Ruby.app",
   "/tmp/_MEIOqzg01/libpython2.7.so.1.0",
   "./libpython2.7.so",
   "/usr/lib/libpython3.4d.so",
   "/usr/local/lib/libpython3.8m.so",
   "/usr/lib/libpython2.7u.so",
   "/usr/lib/libboost_python.so",
   "/usr/lib/x86_64-linux-gnu/libboost_python-py27.so.1.58.0",
   "/usr/lib/libboost_python-py35.so",
   "/usr/lib/libpython3.9.so.1.0",
   "./libruby2.7.so",
   "/usr/lib/libruby3.1.so",
   "/usr/local/lib/libruby3.1.so",
   "/usr/lib/libruby2.6.so",
   "/usr/lib/libfoo_ruby.so",
   "/usr/lib/x86_64-linux-gnu/libfoo_ruby-27.so.1.58.0",
   "/usr/lib/libfoo_ruby-31.so",
   "/usr/lib/libruby.so.2.7",
   "~/Anaconda2/lib/libpython2.7.dylib",
   "/lib/libpython3.4d.dylib",
   "/usr/local/lib/libpython3.8m.dylib",
   "./libpython2.7u.dylib",
   "/libboost_python.dylib",
   "/lib/heapq.cpython-36m-darwin.dylib",
   "/System/Library/Frameworks/Ruby.framework/Versions/2.6/usr/lib/libruby.2.6.dylib",
   "/lib/libruby.2.6.dylib",
   "/libboost_ruby.dylib",
   "/lib/heapq.cruby-36m-darwin.dylib",
   "C:\\Users\\test\\AppData\\Local\\Programs\\Python\\Python37\\python37.dll",
   "C:\\Users\\test\\AppData\\Local\\Programs\\Python\\Python37\\python37.DLL",
   "C:\\Users\\test\\AppData\\Local\\Programs\\ruby\\ruby31\\ruby31.dll",
   "C:\\Users\\test\\AppData\\Local\\Programs\\ruby\\ruby31\\ruby31.DLL",
   "/System/Library/Frameworks/Python.framework/Versions/2.7/Python",
   "/System/Library/Frameworks/Python.framework/Versions/2.7/Resources/Python.app/Contents/MacOS/Python",
   "/usr/local/Cellar/ruby@2/2.7.5_1/Frameworks/ruby.framework/Versions/2.7/Ruby",
   "/usr/local/Cellar/ruby@2/2.7.5_1/Frameworks/ruby.framework/Versions/2.7/Resources/Ruby.app/Contents/MacOS/Ruby",
   "/usr/lib/libSystem.B.dylib",
   "c:\\python37\\python37.dll",
   "c:\\ruby31\\x64-ucrt-ruby310.dll",
   "c:\\python37\\dlls\\pyexpat.pyd",
   "c:\\ruby31\\libgmp-10.dll",
   "__DATA",
   "__TEXT",
   "__DATA_CONST",
   "python.app",
   "ruby.app",
   "/tmp/_meioqzg01/libpython2.7.so.1.0",
   "~/anaconda2/lib/libpython2.7.dylib",
   "/system/library/frameworks/ruby.framework/versions/2.6/usr/lib/libruby.2.6.dylib",
   "c:\\users\\test\\appdata\\local\\programs\\python\\python37\\python37.dll",
   "c:\\users\\test\\appdata\\local\\programs\\ruby\\ruby31\\ruby31.dll",
   "/system/library/frameworks/python.framework/versions/2.7/python",
   "/system/library/frameworks/python.framework/versions/2.7/resources/python.app/contents/macos/python",
   "/usr/local/cellar/ruby@2/2.7.5_1/frameworks/ruby.framework/versions/2.7/ruby",
   "/usr/local/cellar/ruby@2/2.7.5_1/frameworks/ruby.framework/versions/2.7/resources/ruby.app/contents/macos/ruby",
   "/usr/lib/libsystem.b.dylib",
   "__data",
   "__text",
   "__data_const"}

CharsTable == [s \in StringPool |-> Literal(s)]

\* the characters of s
Chars(s) == CharsTable[s]

UpperCase == <<"A","B","C","D","E","F","G","H","I","J","K","L","M",
               "N","O","P","Q","R","S","T","U","V","W","X","Y","Z">>
LowerCase == <<"a","b","c","d","e","f","g","h","i","j","k","l","m",
               "n","o","p","q","r","s","t","u","v","w","x","y","z">>
Digits == {"0","1","2","3","4","5","6","7","8","9"}

CharSet == UNION {{Chars(s)[i] : i \in 1..Len(Chars(s))} : s \in StringPool}

LowerCharTable ==
  [c \in CharSet |->
     IF \E i \in 1..26 : UpperCase[i] = c
     THEN LowerCase[CHOOSE i \in 1..26 : UpperCase[i] = c]
     ELSE c]

\* char::to_lowercase on the characters in use
LowerChar(c) == LowerCharTable[c]

LowerChars(cs) == [i \in 1..Len(cs) |-> LowerChar(cs[i])]

LowercaseTable ==
  [s \in StringPool |-> CHOOSE t \in StringPool : Chars(t) = LowerChars(Chars(s))]

\* str::to_lowercase
to_lowercase(s) == LowercaseTable[s]

\* str::contains on the textual form
Contains(cs, sub) ==
  \E i \in 1..(Len(cs) - Len(sub) + 1) :
    \A k \in 1..Len(sub) : cs[i + k - 1] = sub[k]

\* Path::file_name: the characters after the last separator
LastComponent(cs) ==
  LET seps == {i \in 1..Len(cs) : cs[i] = "/"}
      from == IF seps = {} THEN 1
              ELSE (CHOOSE i \in seps : \A j \in seps : j <= i) + 1
  IN  SubSeq(cs, from, Len(cs))

(***************************************************************************)
(* Regular expressions, as the regex crate matches them: is_match is an    *)
(* unanchored search.  Ends(r, cs, i, ci) is the set of positions at which *)
(* a match of r starting at position i of cs can end.                      *)
(***************************************************************************)
Lit(c) == [t |-> "lit", c |-> c]
AnyChar == [t |-> "any"]
Digit == [t |-> "digit"]
EndOfText == [t |-> "end"]
Cat(rs) == [t |-> "cat", rs |-> rs]
Alt(rs) == [t |-> "alt", rs |-> rs]
Opt(r) == [t |-> "opt", r |-> r]
Star(r) == [t |-> "star", r |-> r]
Plus(r) == [t |-> "plus", r |-> r]
\* a literal string as a concatenation of its characters
Text(s) == Cat([i \in 1..Len(Chars(s)) |-> Lit(Chars(s)[i])])

RECURSIVE Ends(_, _, _, _)
RECURSIVE CatEnds(_, _, _, _, _)
RECURSIVE StarEnds(_, _, _, _)

Ends(r, cs, i, ci) ==
  CASE r.t = "lit" ->
         IF i <= Len(cs) /\ (IF ci THEN LowerChar(cs[i]) = LowerChar(r.c)
                                   ELSE cs[i] = r.c)
         THEN {i + 1} ELSE {}
    [] r.t = "any" -> IF i <= Len(cs) /\ cs[i] # "\n" THEN {i + 1} ELSE {}
    [] r.t = "digit" -> IF i <= Len(cs) /\ cs[i] \in Digits THEN {i + 1} ELSE {}
    [] r.t = "end" -> IF i = Len(cs) + 1 THEN {i} ELSE {}
    [] r.t = "cat" -> CatEnds(r.rs, 1, cs, {i}, ci)
    [] r.t = "alt" -> UNION {Ends(r.rs[k], cs, i, ci) : k \in 1..Len(r.rs)}
    [] r.t = "opt" -> {i} \cup Ends(r.r, cs, i, ci)
    [] r.t = "star" -> StarEnds(r.r, cs, {i}, ci)
    [] r.t = "plus" -> StarEnds(r.r, cs, Ends(r.r, cs, i, ci), ci)

CatEnds(rs, k, cs, from, ci) ==
  IF k > Len(rs) \/ from = {} THEN from
  ELSE CatEnds(rs, k + 1, cs, UNION {Ends(rs[k], cs, j, ci) : j \in from}, ci)

StarEnds(r, cs, reached, ci) ==
  LET more == UNION {Ends(r, cs, j, ci) : j \in reached}
  IN  IF more \subseteq reached THEN reached
      ELSE StarEnds(r, cs, reached \cup more, ci)

\* Regex::is_match
is_match(re, cs) == \E i \in 1..(Len(cs) + 1) : Ends(re.pattern, cs, i, re.case_insensitive) # {}

Regex(pattern) == [pattern |-> pattern, case_insensitive |-> FALSE]
RegexBuilderCaseInsensitive(pattern) == [pattern |-> pattern, case_insensitive |-> TRUE]

(***************************************************************************)
(* The ProcessType implementations.                                        *)
(***************************************************************************)
TargetOS == {"linux", "freebsd", "macos", "windows"}
Runtimes == {"Python", "Ruby"}

Flag == Alt(<<Lit("m"), Lit("d"), Lit("u")>>)

\* PythonProcessType::library_regex
PythonLibraryRegex(os) ==
  CASE os \in {"linux", "freebsd"} ->
         Regex(Cat(<<Text("/libpython"), Digit, AnyChar, Digit, Opt(Digit),
                     Opt(Flag), AnyChar, Lit("s"), Lit("o")>>))
    [] os = "macos" ->
         Regex(Cat(<<Text("/libpython"), Digit, AnyChar, Digit, Opt(Digit),
                     Opt(Flag), AnyChar, Alt(<<Text("dylib"), Text("so")>>),
                     EndOfText>>))
    [] os = "windows" ->
         RegexBuilderCaseInsensitive(
           Cat(<<Lit("\\"), Text("python"), Digit, Digit, Opt(Digit),
                 Opt(Flag), AnyChar, Lit("d"), Lit("l"), Lit("l"), EndOfText>>))

\* "\.\d+\.\d+(\.\d+)?", the version suffix of the Ruby soname
RubyVersionSuffix ==
  Cat(<<Lit("."), Plus(Digit), Lit("."), Plus(Digit),
        Opt(Cat(<<Lit("."), Plus(Digit)>>))>>)

\* RubyProcessType::library_regex
RubyLibraryRegex(os) ==
  CASE os \in {"linux", "freebsd"} ->
         Regex(Cat(<<Text("/libruby"), Text(".so"), Opt(RubyVersionSuffix)>>))
    [] os = "macos" ->
         Regex(Cat(<<Text("/libruby"), Opt(Lit(".")), Digit, Lit("."), Digit,
                     Opt(Digit), Lit("."), Alt(<<Text("dylib"), Text("so")>>),
                     EndOfText>>))
    [] os = "windows" ->
         RegexBuilderCaseInsensitive(
           Cat(<<Lit("\\"), Star(AnyChar), Text("ruby"), Digit, Digit, Opt(Digit),
                 Text(".dll"), Opt(Text(".a")), EndOfText>>))

\* T::library_regex()
library_regex(T, os) ==
  IF T = "Python" THEN PythonLibraryRegex(os) ELSE RubyLibraryRegex(os)

\* T::windows_symbols()
windows_symbols(T) ==
  IF T = "Python"
  THEN <<"_PyThreadState_Current", "interp_head", "_PyRuntime">>
  ELSE <<"global_symbols", "ruby_global_symbols", "ruby_current_vm",
         "ruby_current_vm_ptr", "ruby_current_thread",
         "ruby_current_execution_context_ptr", "ruby_version">>

\* T::is_framework(path)
is_framework(T, path) ==
  IF T = "Python"
  THEN /\ LastComponent(Chars(path)) = Chars("Python")
       /\ ~Contains(Chars(path), Chars("Python.app"))
  ELSE /\ LastComponent(Chars(path)) = Chars("Ruby")
       /\ ~Contains(Chars(path), Chars("Ruby.app"))

\* T::library_regex().is_match(&path.to_string_lossy())
LibraryRegexMatches(T, os, path) == is_match(library_regex(T, os), Chars(path))

IsLibTable ==
  [T \in Runtimes |-> [os \in TargetOS |-> [path \in StringPool |->
     LibraryRegexMatches(T, os, path)]]]

\* is_lib::<T>(path)
is_lib(T, os, path) == IsLibTable[T][os][path]

(***************************************************************************)
(* Inputs: what the process handle, proc_maps, the binary parser, the      *)
(* symbol loader, dyld and /proc can answer.                               *)
(***************************************************************************)
MaxRegions == 2

\* the address of the first mapped region, 0x7f0000000000
Base == U64(0, 0, 32512, 0)

\* process.exe(): the executable path; the case-insensitive platform may
\* spell it in another case than the memory map does
ExePool(T, os) ==
  IF T = "Python"
  THEN {"/usr/bin/python3.9"} \cup (IF os = "windows" THEN {"/usr/bin/Python3.9"} ELSE {})
  ELSE {"/usr/bin/ruby"} \cup (IF os = "windows" THEN {"/usr/bin/Ruby"} ELSE {})

ExeFile(T) == IF T = "Python" THEN "/usr/bin/python3.9" ELSE "/usr/bin/ruby"

LibFile(T, os) ==
  CASE os \in {"linux", "freebsd"} ->
         IF T = "Python" THEN "/usr/lib/libpython3.9.so.1.0" ELSE "/usr/lib/libruby.so.2.7"
    [] os = "macos" ->
         IF T = "Python" THEN "/usr/local/lib/libpython3.8m.dylib" ELSE "/lib/libruby.2.6.dylib"
    [] os = "windows" ->
         IF T = "Python" THEN "c:\\python37\\python37.dll" ELSE "c:\\ruby31\\x64-ucrt-ruby310.dll"

RegionPerms ==
  {[read |-> TRUE, exec |-> TRUE], [read |-> TRUE, exec |-> FALSE],
   [read |-> FALSE, exec |-> FALSE]}

\* a region is anonymous executable memory, or maps the executable or the
\* library with any of the permissions
RegionKinds(T, os) ==
  {[perm |-> [read |-> TRUE, exec |-> TRUE], file |-> None]}
  \cup [perm : RegionPerms, file : {Some(ExeFile(T)), Some(LibFile(T, os))}]

\* proc_maps::MapRange.  Regions are contiguous from Base, the k-th one k pages long.
MapRange(k, perm, file) ==
  [start |-> U64Add(Base, Pages((k * (k - 1)) \div 2)).val,
   size |-> Pages(k),
   read |-> perm.read,
   exec |-> perm.exec,
   filename |-> file]

MapsOfLen(T, os, n) ==
  IF n = 0 THEN {<<>>} ELSE
  {[k \in 1..n |-> MapRange(k, a[k].perm, a[k].file)] :
     a \in [1..n -> RegionKinds(T, os)]}

MapsPool(T, os) == UNION {MapsOfLen(T, os, n) : n \in 0..MaxRegions}

Anchor == "_mh_execute_header"

\* a symbol of the runtime that both the binary and the library may define
KeySymbol(T) == IF T = "Python" THEN "_PyRuntime" ELSE "ruby_current_vm_ptr"

LowAddr == U64(4096, 0, 0, 0)         \* 0x1000
ImageAddr == U64(0, 0, 32513, 0)      \* 0x7f0100000000
KeyAddr == U64(16384, 0, 32513, 0)    \* 0x7f0100004000
BssAddr == U64(32768, 0, 32513, 0)    \* 0x7f0100008000
LibKeyAddr == U64(8192, 0, 32514, 0)  \* 0x7f0200002000
LibBssAddr == U64(24576, 0, 32514, 0) \* 0x7f0200006000

BinaryInfo(symbols, bss_addr, bss_size) ==
  [symbols |-> symbols, bss_addr |-> bss_addr, bss_size |-> bss_size]

NoSymbols == [n \in {} |-> Zero]

\* what parse_binary can return for the main executable; only a Mach-O
\* executable defines _mh_execute_header
MainParses(T, os) ==
  {Err("parse_binary"),
   Ok(BinaryInfo(NoSymbols, Zero, Zero)),
   Ok(BinaryInfo([n \in {KeySymbol(T)} |-> KeyAddr], BssAddr, Pages(1)))}
  \cup
  (IF os # "macos" THEN {} ELSE
   {Ok(BinaryInfo([n \in {Anchor} |-> ImageAddr], BssAddr, Pages(1))),
    Ok(BinaryInfo([n \in {Anchor, KeySymbol(T)} |-> IF n = Anchor THEN ImageAddr ELSE KeyAddr],
                  BssAddr, Pages(1))),
    Ok(BinaryInfo([n \in {Anchor, KeySymbol(T)} |-> IF n = Anchor THEN ImageAddr ELSE KeyAddr],
                  Zero, Zero)),
    Ok(BinaryInfo([n \in {Anchor, KeySymbol(T)} |-> IF n = Anchor THEN ImageAddr ELSE LowAddr],
                  BssAddr, Pages(1))),
    Ok(BinaryInfo([n \in {Anchor, KeySymbol(T)} |-> IF n = Anchor THEN LowAddr ELSE KeyAddr],
                  BssAddr, Pages(1)))})

\* what parse_binary can return for a library
LibParses(T) ==
  {Err("parse_binary"),
   Ok(BinaryInfo(NoSymbols, LibBssAddr, Pages(1))),
   Ok(BinaryInfo([n \in {KeySymbol(T)} |-> LibKeyAddr], LibBssAddr, Pages(1)))}

ModuleBase == U64(0, 64, 0, 0)           \* 0x400000
FarModuleBase == U64(0, 0, 32767, 0)     \* 0x7fff00000000

\* proc_maps::win_maps::SymbolLoader as a source of answers: whether the
\* loader and the module load, the module's base, the symbols it resolves
\* and the (base, addr) it reports for them
SymbolSource(loads, loaded, base, names, rbase, raddr) ==
  [loader_ok |-> loads, module_ok |-> loaded, module_base |-> base,
   resolves |-> names, base |-> rbase, addr |-> raddr]

FirstSymbol(T) == {windows_symbols(T)[1]}
AllSymbols(T) == {windows_symbols(T)[i] : i \in 1..Len(windows_symbols(T))}

SourcePool(T) ==
  {SymbolSource(FALSE, FALSE, Zero, {}, Zero, Zero),
   SymbolSource(TRUE, FALSE, Zero, {}, Zero, Zero),
   SymbolSource(TRUE, TRUE, Zero, FirstSymbol(T), Zero, LowAddr),
   SymbolSource(TRUE, TRUE, ModuleBase, FirstSymbol(T), Zero, LowAddr),
   SymbolSource(TRUE, TRUE, ModuleBase, AllSymbols(T), ModuleBase, U64Add(ModuleBase, LowAddr).val),
   SymbolSource(TRUE, TRUE, FarModuleBase, FirstSymbol(T), Zero, LowAddr)}

NoSource == [loader_ok |-> FALSE]

FrameworkFile(T) ==
  IF T = "Python" THEN "/System/Library/Frameworks/Python.framework/Versions/2.7/Python"
  ELSE "/usr/local/Cellar/ruby@2/2.7.5_1/Frameworks/ruby.framework/Versions/2.7/Ruby"

AppBundleFile(T) ==
  IF T = "Python"
  THEN "/System/Library/Frameworks/Python.framework/Versions/2.7/Resources/Python.app/Contents/MacOS/Python"
  ELSE "/usr/local/Cellar/ruby@2/2.7.5_1/Frameworks/ruby.framework/Versions/2.7/Resources/Ruby.app/Contents/MacOS/Ruby"

\* proc_maps::mac_maps::DyldInfo
DyldInfo(file, segname, vmaddr, vmsize) ==
  [filename |-> file, segment |-> [segname |-> segname, vmaddr |-> vmaddr, vmsize |-> vmsize]]

\* what get_dyld_info can return
DyldPool(T) ==
  {Err("get_dyld_info"),
   Ok(<<DyldInfo("/usr/lib/libSystem.B.dylib", "__DATA", BssAddr, Pages(1)),
        DyldInfo(FrameworkFile(T), "__TEXT", LibKeyAddr, Pages(2)),
        DyldInfo(FrameworkFile(T), "__DATA", LibBssAddr, Pages(3))>>),
   Ok(<<DyldInfo(AppBundleFile(T), "__DATA", LibBssAddr, Pages(3))>>),
   Ok(<<DyldInfo(FrameworkFile(T), "__DATA_CONST", LibBssAddr, Pages(3))>>)}

\* std::fs::read_link of the two mount-namespace links
SelfMntPool == {Err("read_link"), Ok("mnt:[4026531840]")}
TargetMntPool == {Err("read_link"), Ok("mnt:[4026531840]"), Ok("mnt:[4026532256]")}

(***************************************************************************)
(* Helpers of ProcessInfo::new.                                            *)
(***************************************************************************)
Panic(why) == [kind |-> "Panic", error |-> why]

\* the first index of seq satisfying Test, as Iterator::find returns it
FindIndex(seq, Test(_)) ==
  IF \E i \in 1..Len(seq) : Test(seq[i])
  THEN Some(CHOOSE i \in 1..Len(seq) : Test(seq[i]) /\ \A j \in 1..(i - 1) : ~Test(seq[j]))
  ELSE None

\* the closure is_bin: on windows both sides are lowercased
is_bin(os, pathname, exe) ==
  IF os = "windows"
  THEN to_lowercase(pathname) = exe
  ELSE pathname = exe

\* HashMap::extend: entries of `more` replace those of `symbols`
Extend(symbols, more) ==
  [n \in (DOMAIN symbols) \cup (DOMAIN more) |->
     IF n \in DOMAIN more THEN more[n] ELSE symbols[n]]

\* SymbolAddress always subtracting the reported base
SymbolAddressReportedBase(src, offset) ==
  LET sum == U64Add(offset, src.addr)
      dif == U64Sub(sum.val, src.base)
  IN  [val |-> dif.val, overflow |-> sum.overflow \/ dif.overflow]

\* the address computed for one resolved symbol: offset + addr - base
SymbolAddress(src, offset) ==
  LET sum == U64Add(offset, src.addr)
      ref == IF src.base = Zero THEN src.module_base ELSE src.base
      dif == U64Sub(sum.val, ref)
  IN  [val |-> dif.val, overflow |-> sum.overflow \/ dif.overflow]

\* get_windows_symbols::<T>(pid, filename, offset), answered by src
get_windows_symbols(T, src, offset, checks) ==
  IF ~src.loader_ok THEN Err("SymbolLoader::new")
  ELSE IF ~src.module_ok THEN Err("load_module")
  ELSE IF checks /\ src.resolves # {} /\ SymbolAddress(src, offset).overflow
       THEN Panic("attempt to add or subtract with overflow")
  ELSE Ok([n \in (AllSymbols(T) \cap src.resolves) |-> SymbolAddress(src, offset).val])

\* MacAdjust subtracting the anchor address itself, not its offset from the region
MacAdjustByAnchor(pb, start, checks) ==
  IF Anchor \notin DOMAIN pb.symbols THEN Panic("HashMap index: key not found")
  ELSE
    LET offset == pb.symbols[Anchor]
        bss == U64Sub(pb.bss_addr, offset)
        wraps == \/ \E n \in DOMAIN pb.symbols : U64Sub(pb.symbols[n], offset).overflow
                 \/ (pb.bss_addr # Zero /\ bss.overflow)
    IN  IF checks /\ wraps THEN Panic("attempt to subtract with overflow")
        ELSE Ok([pb EXCEPT
                   !.symbols = [n \in DOMAIN pb.symbols |-> U64Sub(pb.symbols[n], offset).val],
                   !.bss_addr = IF pb.bss_addr # Zero THEN bss.val ELSE pb.bss_addr])

\* the macOS block of the and_then closure: subtract the _mh_execute_header offset
MacAdjust(pb, start, checks) ==
  IF Anchor \notin DOMAIN pb.symbols THEN Panic("HashMap index: key not found")
  ELSE
    LET offset == U64Sub(pb.symbols[Anchor], start)
        bss == U64Sub(pb.bss_addr, offset.val)
        wraps == \/ offset.overflow
                 \/ \E n \in DOMAIN pb.symbols : U64Sub(pb.symbols[n], offset.val).overflow
                 \/ (pb.bss_addr # Zero /\ bss.overflow)
    IN  IF checks /\ wraps THEN Panic("attempt to subtract with overflow")
        ELSE Ok([pb EXCEPT
                   !.symbols = [n \in DOMAIN pb.symbols |-> U64Sub(pb.symbols[n], offset.val).val],
                   !.bss_addr = IF pb.bss_addr # Zero THEN bss.val ELSE pb.bss_addr])

\* the closure passed to and_then on the parsed main binary
CorrectBinary(os, T, pb, src, start, checks) ==
  CASE os = "windows" ->
         LET syms == get_windows_symbols(T, src, start, checks)
         IN  IF syms.kind = "Ok"
             THEN Ok([pb EXCEPT !.symbols = Extend(pb.symbols, syms.val)])
             ELSE syms
    [] os = "macos" -> MacAdjust(pb, start, checks)
    [] OTHER -> Ok(pb)

\* unwrap_or with the default negated
unwrap_or_negated(r, default) == IF r.kind = "Ok" THEN r.val ELSE ~default

\* Result::unwrap_or
unwrap_or(r, default) == IF r.kind = "Ok" THEN r.val ELSE default

\* Result::ok
ok(r) == IF r.kind = "Ok" THEN Some(r.val) ELSE None

\* SelectBinaryMap falling back to the last region instead of the first
SelectLastMap(regions, found) ==
  IF found.kind = "Some" THEN Ok(found.val)
  ELSE IF regions = <<>> THEN Err("No memory map regions found for process")
  ELSE Ok(Len(regions))

\* SelectBinaryMap without the is_empty test: &maps[0] panics on an empty list
SelectUncheckedMap(regions, found) ==
  IF found.kind = "Some" THEN Ok(found.val)
  ELSE IF regions = <<>> THEN Panic("index out of bounds")
  ELSE Ok(1)

\* lines 72-82: the region found, else the first one, else no region at all
SelectBinaryMap(regions, found) ==
  IF found.kind = "Some" THEN Ok(found.val)
  ELSE IF regions = <<>> THEN Err("No memory map regions found for process")
  ELSE Ok(1)

\* ParsedLibrary swallowing a parse failure (.ok() instead of ?)
ParsedLibraryTolerant(ret, syms) ==
  IF ret.kind # "Ok" THEN Ok(None)
  ELSE IF syms.kind # "Ok" THEN syms
  ELSE Ok(Some([ret.val EXCEPT !.symbols = Extend(ret.val.symbols, syms.val)]))

\* lines 145-158: the parsed library with the loader's symbols merged in; a
\* failure of either call is returned by the ? operator
ParsedLibrary(ret, syms) ==
  IF ret.kind # "Ok" THEN ret
  ELSE IF syms.kind # "Ok" THEN syms
  ELSE Ok(Some([ret.val EXCEPT !.symbols = Extend(ret.val.symbols, syms.val)]))

\* lines 191-205: the parsed framework image, its BSS set to the data segment
ParsedFramework(ret, segment) ==
  IF ret.kind # "Ok" THEN ret
  ELSE Ok(Some([ret.val EXCEPT !.bss_addr = segment.vmaddr, !.bss_size = segment.vmsize]))

\* Reconcile without the library test: binary.ok() in every case
ReconcileAlwaysTolerant(bin, lib) == Ok(ok(bin))

\* Reconcile with the ? applied in every case
ReconcileAlwaysFatal(bin, lib) ==
  IF bin.kind = "Ok" THEN Ok(Some(bin.val)) ELSE Err("Failed to parse ruby binary")

\* lines 213-217: with a library a failure to parse the main binary is tolerated
Reconcile(bin, lib) ==
  IF lib.kind = "None"
  THEN IF bin.kind = "Ok" THEN Ok(Some(bin.val)) ELSE Err("Failed to parse ruby binary")
  ELSE Ok(ok(bin))

\* the segment name test m.segment.segname[0..7] == b"__DATA\0"
IsDataSegment(segname) ==
  [i \in 1..7 |-> IF i <= Len(Chars(segname)) THEN Chars(segname)[i] ELSE "NUL"]
    = <<"_", "_", "D", "A", "T", "A", "NUL">>

\* is_dockerized(pid)
is_dockerized(self_mnt, target_mnt) ==
  IF self_mnt.kind = "Err" THEN self_mnt
  ELSE IF target_mnt.kind = "Err" THEN target_mnt
  ELSE Ok(self_mnt.val # target_mnt.val)

ParseCall(file, addr, size, is_main, ret) ==
  [filename |-> file, addr |-> addr, size |-> size, is_bin |-> is_main, ret |-> ret]

SymbolCall(file, offset, src, ret) ==
  [filename |-> file, offset |-> offset, source |-> src, ret |-> ret]

ProcessInfo(bin, lib, regions, path, dockerized) ==
  [binary |-> bin, library |-> lib, maps |-> regions, path |-> path,
   dockerized |-> dockerized]

\* get_symbol consulting the library before the binary
get_symbol_library_first(self, symbol) ==
  IF self.library.kind = "Some" /\ symbol \in DOMAIN self.library.val.symbols
  THEN Some(self.library.val.symbols[symbol])
  ELSE IF self.binary.kind = "Some" /\ symbol \in DOMAIN self.binary.val.symbols
  THEN Some(self.binary.val.symbols[symbol])
  ELSE None

\* ProcessInfo::get_symbol
get_symbol(self, symbol) ==
  IF self.binary.kind = "Some" /\ symbol \in DOMAIN self.binary.val.symbols
  THEN Some(self.binary.val.symbols[symbol])
  ELSE IF self.library.kind = "Some" /\ symbol \in DOMAIN self.library.val.symbols
  THEN Some(self.library.val.symbols[symbol])
  ELSE None

(***************************************************************************)
(* ProcessInfo::new, step by step, and the calls on its result.            *)
(***************************************************************************)
Init ==
  /\ target_os \in TargetOS
  /\ runtime \in Runtimes
  /\ overflow_checks \in BOOLEAN
  /\ pc = "exe"
  /\ filename = None
  /\ maps = None
  /\ parse_calls = <<>>
  /\ symbol_calls = <<>>
  /\ binary = None
  /\ library = None
  /\ dyld_infos = None
  /\ mnt_ns = None
  /\ result = None
  /\ query = None
  /\ lib_query = None

\* a return statement, or a panic unwinding out of the function
Return(r) == result' = r /\ pc' = "done"

\* lines 33-44: process.exe()?, lowercased on windows
GetExe ==
  /\ pc = "exe"
  /\ \E r \in {Err("Failed to get process executable name")}
                \cup {Ok(p) : p \in ExePool(runtime, target_os)} :
       IF r.kind = "Err"
       THEN Return(r) /\ UNCHANGED filename
       ELSE /\ filename' = Some(IF target_os = "windows" THEN to_lowercase(r.val) ELSE r.val)
            /\ pc' = "maps"
            /\ UNCHANGED result
  /\ UNCHANGED <<target_os, runtime, overflow_checks, maps, parse_calls, symbol_calls,
                 binary, library, dyld_infos, mnt_ns, query, lib_query>>

\* line 46: get_process_maps(pid)?
GetProcessMaps ==
  /\ pc = "maps"
  /\ \E r \in {Err("get_process_maps")} \cup {Ok(m) : m \in MapsPool(runtime, target_os)} :
       IF r.kind = "Err"
       THEN Return(r) /\ UNCHANGED maps
       ELSE maps' = Some(r.val) /\ pc' = "binary" /\ UNCHANGED result
  /\ UNCHANGED <<target_os, runtime, overflow_checks, filename, parse_calls, symbol_calls,
                 binary, library, dyld_infos, mnt_ns, query, lib_query>>

\* lines 63-70: the region of the executable
BinaryMatch(m) ==
  m.filename.kind = "Some" /\ is_bin(target_os, m.filename.val, filename.val) /\ m.exec

\* lines 62-126: select the region of the executable, parse it, correct the result
ParseBinary ==
  /\ pc = "binary"
  /\ LET selected == SelectBinaryMap(maps.val, FindIndex(maps.val, BinaryMatch)) IN
     IF selected.kind # "Ok"
     THEN /\ Return(selected)
          /\ UNCHANGED <<parse_calls, symbol_calls, binary>>
     ELSE LET map == maps.val[selected.val] IN
          \E ret \in MainParses(runtime, target_os) :
          \E src \in (IF target_os = "windows" /\ ret.kind = "Ok"
                      THEN SourcePool(runtime) ELSE {NoSource}) :
            LET corrected == IF ret.kind = "Ok"
                             THEN CorrectBinary(target_os, runtime, ret.val, src,
                                                map.start, overflow_checks)
                             ELSE ret
            IN  /\ parse_calls' = Append(parse_calls,
                     ParseCall(filename.val, map.start, map.size, TRUE, ret))
                /\ symbol_calls' =
                     IF target_os = "windows" /\ ret.kind = "Ok"
                     THEN Append(symbol_calls,
                            SymbolCall(filename.val, map.start, src,
                              get_windows_symbols(runtime, src, map.start, overflow_checks)))
                     ELSE symbol_calls
                /\ IF corrected.kind = "Panic"
                   THEN Return(corrected) /\ UNCHANGED binary
                   ELSE binary' = corrected /\ pc' = "library" /\ UNCHANGED result
  /\ UNCHANGED <<target_os, runtime, overflow_checks, filename, maps, library,
                 dyld_infos, mnt_ns, query, lib_query>>

\* the library scan ignoring the permission bits of a region
LibraryMatchAnyPermission(m) ==
  m.filename.kind = "Some" /\ is_lib(runtime, target_os, m.filename.val)

\* lines 130-138: the region of the library
LibraryMatch(m) ==
  /\ m.filename.kind = "Some"
  /\ is_lib(runtime, target_os, m.filename.val)
  /\ IF target_os = "windows" THEN m.read ELSE m.exec

\* lines 128-160: select the region of the library and parse it
ParseLibrary ==
  /\ pc = "library"
  /\ LET found == FindIndex(maps.val, LibraryMatch) IN
     IF found.kind = "None"
     THEN /\ library' = None
          /\ pc' = IF target_os = "macos" THEN "dyld" ELSE "finish"
          /\ UNCHANGED <<parse_calls, symbol_calls, result>>
     ELSE LET libmap == maps.val[found.val] IN
          \E ret \in LibParses(runtime) :
          \E src \in (IF target_os = "windows" /\ ret.kind = "Ok"
                      THEN SourcePool(runtime) ELSE {NoSource}) :
            LET syms == IF target_os = "windows" /\ ret.kind = "Ok"
                        THEN get_windows_symbols(runtime, src, libmap.start, overflow_checks)
                        ELSE Ok(NoSymbols)
                parsed == ParsedLibrary(ret, syms)
            IN  /\ parse_calls' = Append(parse_calls,
                     ParseCall(libmap.filename.val, libmap.start, libmap.size, FALSE, ret))
                /\ symbol_calls' =
                     IF target_os = "windows" /\ ret.kind = "Ok"
                     THEN Append(symbol_calls,
                            SymbolCall(libmap.filename.val, libmap.start, src, syms))
                     ELSE symbol_calls
                /\ IF parsed.kind # "Ok"
                   THEN Return(parsed) /\ UNCHANGED library
                   ELSE /\ library' = parsed.val
                        /\ pc' = IF target_os = "macos" /\ parsed.val.kind = "None"
                                 THEN "dyld" ELSE "finish"
                        /\ UNCHANGED result
  /\ UNCHANGED <<target_os, runtime, overflow_checks, filename, maps, binary,
                 dyld_infos, mnt_ns, query, lib_query>>

\* lines 183-186: the framework image's data segment
FrameworkMatch(m) ==
  is_framework(runtime, m.filename) /\ IsDataSegment(m.segment.segname)

\* lines 165-208: macOS, no library region: look the library up in dyld's image list
DyldFallback ==
  /\ pc = "dyld"
  /\ \E r \in DyldPool(runtime) :
       /\ dyld_infos' = r
       /\ IF r.kind = "Err"
          THEN Return(r) /\ UNCHANGED <<parse_calls, library>>
          ELSE LET found == FindIndex(r.val, FrameworkMatch) IN
               IF found.kind = "None"
               THEN pc' = "finish" /\ UNCHANGED <<parse_calls, library, result>>
               ELSE LET dyld_data == r.val[found.val] IN
                    \E ret \in LibParses(runtime) :
                      LET parsed == ParsedFramework(ret, dyld_data.segment) IN
                      /\ parse_calls' = Append(parse_calls,
                           ParseCall(dyld_data.filename, dyld_data.segment.vmaddr,
                                     dyld_data.segment.vmsize, FALSE, ret))
                      /\ IF parsed.kind # "Ok"
                         THEN Return(parsed) /\ UNCHANGED library
                         ELSE library' = parsed.val /\ pc' = "finish" /\ UNCHANGED result
  /\ UNCHANGED <<target_os, runtime, overflow_checks, filename, maps, symbol_calls,
                 binary, mnt_ns, query, lib_query>>

\* lines 213-230: reconcile binary and library, check the container, return
Finish ==
  /\ pc = "finish"
  /\ LET reconciled == Reconcile(binary, library) IN
     IF reconciled.kind # "Ok"
     THEN Return(reconciled) /\ UNCHANGED mnt_ns
     ELSE \E self_mnt \in (IF target_os = "linux" THEN SelfMntPool ELSE {None}) :
          \E target_mnt \in (IF target_os = "linux" THEN TargetMntPool ELSE {None}) :
            LET docker == IF target_os = "linux"
                          THEN Some(is_dockerized(self_mnt, target_mnt)) ELSE None
            IN  /\ mnt_ns' = docker
                /\ Return(Ok(ProcessInfo(
                     reconciled.val, library, maps.val, filename.val,
                     IF target_os = "linux" THEN Some(unwrap_or(docker.val, FALSE)) ELSE None)))
  /\ UNCHANGED <<target_os, runtime, overflow_checks, filename, maps, parse_calls,
                 symbol_calls, binary, library, dyld_infos, query, lib_query>>

\* the names asked for: the runtime's symbol, and what the platform adds
QuerySymbols(T, os) ==
  {KeySymbol(T)} \cup (IF os = "macos" THEN {Anchor} ELSE {})
                \cup (IF os = "windows" THEN FirstSymbol(T) ELSE {})

\* lines 233-248: get_symbol on the ProcessInfo that new returned
GetSymbol ==
  /\ pc = "done"
  /\ result.kind = "Ok"
  /\ \E symbol \in QuerySymbols(runtime, target_os) :
       query' = Some([symbol |-> symbol, ret |-> get_symbol(result.val, symbol)])
  /\ UNCHANGED <<target_os, runtime, overflow_checks, pc, filename, maps, parse_calls,
                 symbol_calls, binary, library, dyld_infos, mnt_ns, result, lib_query>>

Next ==
  \/ GetExe
  \/ GetProcessMaps
  \/ ParseBinary
  \/ ParseLibrary
  \/ DyldFallback
  \/ Finish
  \/ GetSymbol

Spec == Init /\ [][Next]_vars

(***************************************************************************)
(* is_lib on its own, as the unit tests call it.                           *)
(***************************************************************************)
LibTestPaths ==
  {"/tmp/_MEIOqzg01/libpython2.7.so.1.0", "./libpython2.7.so", "/usr/lib/libpython3.4d.so",
   "/usr/local/lib/libpython3.8m.so", "/usr/lib/libpython2.7u.so", "/usr/lib/libboost_python.so",
   "/usr/lib/x86_64-linux-gnu/libboost_python-py27.so.1.58.0", "/usr/lib/libboost_python-py35.so",
   "/usr/lib/libpython3.9.so.1.0",
   "./libruby2.7.so", "/usr/lib/libruby3.1.so", "/usr/local/lib/libruby3.1.so",
   "/usr/lib/libruby2.6.so", "/usr/lib/libfoo_ruby.so",
   "/usr/lib/x86_64-linux-gnu/libfoo_ruby-27.so.1.58.0", "/usr/lib/libfoo_ruby-31.so",
   "/usr/lib/libruby.so.2.7",
   "~/Anaconda2/lib/libpython2.7.dylib", "/lib/libpython3.4d.dylib",
   "/usr/local/lib/libpython3.8m.dylib", "./libpython2.7u.dylib", "/libboost_python.dylib",
   "/lib/heapq.cpython-36m-darwin.dylib",
   "/System/Library/Frameworks/Ruby.framework/Versions/2.6/usr/lib/libruby.2.6.dylib",
   "/lib/libruby.2.6.dylib", "/libboost_ruby.dylib", "/lib/heapq.cruby-36m-darwin.dylib",
   "C:\\Users\\test\\AppData\\Local\\Programs\\Python\\Python37\\python37.dll",
   "C:\\Users\\test\\AppData\\Local\\Programs\\Python\\Python37\\python37.DLL",
   "C:\\Users\\test\\AppData\\Local\\Programs\\ruby\\ruby31\\ruby31.dll",
   "C:\\Users\\test\\AppData\\Local\\Programs\\ruby\\ruby31\\ruby31.DLL"}

InitIsLib ==
  /\ target_os \in TargetOS
  /\ runtime \in Runtimes
  /\ overflow_checks = FALSE
  /\ pc = "is_lib"
  /\ filename = None
  /\ maps = None
  /\ parse_calls = <<>>
  /\ symbol_calls = <<>>
  /\ binary = None
  /\ library = None
  /\ dyld_infos = None
  /\ mnt_ns = None
  /\ result = None
  /\ query = None
  /\ lib_query = None

\* lines 295-300: is_lib::<T>(path)
IsLib ==
  /\ pc = "is_lib"
  /\ \E path \in LibTestPaths :
       lib_query' = Some([path |-> path, ret |-> is_lib(runtime, target_os, path)])
  /\ UNCHANGED <<target_os, runtime, overflow_checks, pc, filename, maps, parse_calls,
                 symbol_calls, binary, library, dyld_infos, mnt_ns, result, query>>

NextIsLib == IsLib

SpecIsLib == InitIsLib /\ [][NextIsLib]_vars

(***************************************************************************)
(* Properties of ProcessInfo::new and get_symbol.                          *)
(***************************************************************************)
Done == pc = "done"
Returned == Done /\ result.kind = "Ok"
MainParseFailed == Len(parse_calls) >= 1 /\ parse_calls[1].ret.kind = "Err"

\* the call c parsed a region that the library scan selects
LibraryRegionCall(c) ==
  /\ ~c.is_bin
  /\ \E i \in 1..Len(maps.val) :
       /\ LibraryMatch(maps.val[i])
       /\ c.filename = maps.val[i].filename.val
       /\ c.addr = maps.val[i].start

LibraryRegionParseFailed ==
  \E k \in 1..Len(parse_calls) :
    LibraryRegionCall(parse_calls[k]) /\ parse_calls[k].ret.kind = "Err"

\* C1: whenever new returns a ProcessInfo, its binary or its library is
\* present; a run that ends with the binary failed and no library does not
\* return a ProcessInfo.
C1_BinaryOrLibraryPresent ==
  /\ Returned => (result.val.binary.kind = "Some" \/ result.val.library.kind = "Some")
  /\ (Done /\ binary.kind = "Err" /\ library.kind = "None") => result.kind # "Ok"

C1_Witness ==
  Returned /\ result.val.binary.kind = "None" /\ result.val.library.kind = "Some"

\* C2: get_symbol(name) is the binary's address when the binary is present
\* and has the name, else the library's address when the library is present
\* and has the name, else absence; it is never an error, and the ProcessInfo
\* stays the one that new assembled.
C2_GetSymbolPrecedence ==
  query.kind = "Some" =>
    LET self == result.val
        name == query.val.symbol
        in_binary == self.binary.kind = "Some" /\ name \in DOMAIN self.binary.val.symbols
        in_library == self.library.kind = "Some" /\ name \in DOMAIN self.library.val.symbols
    IN  /\ in_binary => query.val.ret = Some(self.binary.val.symbols[name])
        /\ (~in_binary /\ in_library) => query.val.ret = Some(self.library.val.symbols[name])
        /\ (~in_binary /\ ~in_library) => query.val.ret = None
        /\ query.val.ret.kind \in {"Some", "None"}
        /\ result.kind = "Ok"
        /\ self.binary = ok(binary)
        /\ self.library = library
        /\ self.maps = maps.val
        /\ self.path = filename.val

C2_Witness ==
  /\ query.kind = "Some"
  /\ result.val.binary.kind = "Some"
  /\ result.val.library.kind = "Some"
  /\ query.val.symbol \in DOMAIN result.val.binary.val.symbols
  /\ query.val.symbol \in DOMAIN result.val.library.val.symbols
  /\ result.val.binary.val.symbols[query.val.symbol]
       # result.val.library.val.symbols[query.val.symbol]
  /\ query.val.ret = Some(result.val.binary.val.symbols[query.val.symbol])

\* C3: when parse_binary fails on the main binary, no ProcessInfo is returned
\* exactly when no library was resolved; with a library the failure is
\* tolerated and the ProcessInfo has no binary and that library.
C3_MainParseFailureTolerated ==
  (Done /\ MainParseFailed) =>
    /\ (result.kind # "Ok") <=> (library.kind = "None")
    /\ library.kind = "Some" =>
         /\ result.kind = "Ok"
         /\ result.val.binary = None
         /\ result.val.library = library

C3_Witness ==
  Done /\ MainParseFailed /\ library.kind = "Some" /\ result.kind = "Ok"
       /\ result.val.binary = None

\* C4: when the region selected for the library fails to parse, new returns
\* an error, whether or not the main binary parsed.
C4_LibraryParseFailureFatal ==
  (Done /\ maps.kind = "Some" /\ LibraryRegionParseFailed) => result.kind = "Err"

C4_Witness ==
  /\ Done /\ maps.kind = "Some" /\ LibraryRegionParseFailed
  /\ binary.kind = "Ok"
  /\ result.kind = "Err"

\* no region maps the executable path with execute permission, and a region exists
FellBack ==
  /\ maps.kind = "Some"
  /\ maps.val # <<>>
  /\ \A i \in 1..Len(maps.val) :
       ~(maps.val[i].filename = Some(filename.val) /\ maps.val[i].exec)

MainCallOnFirstRegion ==
  /\ Len(parse_calls) >= 1
  /\ parse_calls[1].is_bin
  /\ parse_calls[1].filename = filename.val
  /\ parse_calls[1].addr = maps.val[1].start
  /\ parse_calls[1].size = maps.val[1].size

\* C5 as stated: after a fallback to the first region the main binary is
\* parsed with that region's start and size and construction does not fail.
C5_FallbackNeverFails ==
  (Done /\ FellBack) => (MainCallOnFirstRegion /\ result.kind = "Ok")

\* C5, amended: after a fallback to the first region the main binary is parsed
\* with that region's start and size, and the run never ends in the
\* no-memory-regions error; it may still fail in a later step.
C5_FallbackParsesFirstRegion ==
  (FellBack /\ pc \notin {"exe", "maps", "binary"}) =>
    /\ MainCallOnFirstRegion
    /\ result # Err("No memory map regions found for process")

C5_Witness ==
  /\ FellBack /\ Returned /\ Len(maps.val) >= 2
  /\ MainCallOnFirstRegion
  /\ result.val.binary.kind = "Some"

\* C6: when the memory map is obtained and empty, new fails with the
\* no-memory-regions error, and nothing is parsed.
C6_NoRegionsIsAnError ==
  maps = Some(<<>>) =>
    /\ parse_calls = <<>>
    /\ symbol_calls = <<>>
    /\ pc \in {"binary", "done"}
    /\ Done => result = Err("No memory map regions found for process")

C6_Witness ==
  Done /\ maps = Some(<<>>) /\ result.kind = "Err" /\ parse_calls = <<>>

ContainerCheckFailed == mnt_ns.kind = "Some" /\ mnt_ns.val.kind = "Err"

\* C7 as stated: a failing container check leaves dockerized false and a
\* failing get_dyld_info is not returned as the error of new.
C7_PlatformQueriesTolerated ==
  /\ ContainerCheckFailed => (result.kind = "Ok" /\ result.val.dockerized = Some(FALSE))
  /\ (Done /\ dyld_infos.kind = "Err") => result # dyld_infos

\* C7, amended: a failing container check leaves dockerized false and new
\* still returns the ProcessInfo; a failing get_dyld_info is returned as the
\* error of new; an image list without the framework's data segment leaves
\* the library absent, and new then returns a ProcessInfo exactly when the
\* main binary was obtained.
C7_ContainerCheckTolerated ==
  /\ ContainerCheckFailed => (result.kind = "Ok" /\ result.val.dockerized = Some(FALSE))
  /\ (Done /\ dyld_infos.kind = "Err") => result = dyld_infos
  /\ (Done /\ dyld_infos.kind = "Ok"
           /\ \A i \in 1..Len(dyld_infos.val) : ~FrameworkMatch(dyld_infos.val[i])) =>
       /\ library = None
       /\ (result.kind = "Ok") <=> (binary.kind = "Ok")

C7_Witness ==
  /\ ContainerCheckFailed
  /\ Returned
  /\ result.val.dockerized = Some(FALSE)

\* the main binary was parsed with the anchor symbol and the correction ran
AnchorCorrected ==
  /\ target_os = "macos"
  /\ binary.kind = "Ok"
  /\ Anchor \in DOMAIN parse_calls[1].ret.val.symbols

AnchorOffset == U64Sub(parse_calls[1].ret.val.symbols[Anchor], parse_calls[1].addr).val

\* C8 as stated: every corrected address, and the corrected BSS address, is
\* the raw one minus (A - S).
C8_OffsetSubtractedEverywhere ==
  AnchorCorrected =>
    LET raw == parse_calls[1].ret.val IN
    /\ \A n \in DOMAIN raw.symbols :
         binary.val.symbols[n] = U64Sub(raw.symbols[n], AnchorOffset).val
    /\ binary.val.bss_addr = U64Sub(raw.bss_addr, AnchorOffset).val

\* C8, amended: in u64 arithmetic every corrected address plus (A - S) is the
\* raw address; the same holds of a nonzero raw BSS address, and a zero BSS
\* address stays zero.
C8_OffsetSubtractedFromSymbols ==
  AnchorCorrected =>
    LET raw == parse_calls[1].ret.val IN
    /\ DOMAIN binary.val.symbols = DOMAIN raw.symbols
    /\ \A n \in DOMAIN raw.symbols :
         U64Add(binary.val.symbols[n], AnchorOffset).val = raw.symbols[n]
    /\ raw.bss_addr # Zero => U64Add(binary.val.bss_addr, AnchorOffset).val = raw.bss_addr
    /\ raw.bss_addr = Zero => binary.val.bss_addr = Zero
    /\ binary.val.bss_size = raw.bss_size

C8_Witness ==
  /\ AnchorCorrected
  /\ AnchorOffset # Zero
  /\ parse_calls[1].ret.val.bss_addr # Zero
  /\ KeySymbol(runtime) \in DOMAIN binary.val.symbols
  /\ binary.val.symbols[KeySymbol(runtime)] # parse_calls[1].ret.val.symbols[KeySymbol(runtime)]

\* (reported address - reference base) + region load address, the reference
\* base being the reported base if nonzero and else the module's own base
ResolvedAddress(c) ==
  LET ref == IF c.source.base # Zero THEN c.source.base ELSE c.source.module_base
  IN  U64Add(U64Sub(c.source.addr, ref).val, c.offset).val

\* the table the symbols of call c are merged into, if it was built
MergedInto(c) ==
  IF c.filename = filename.val
  THEN (IF binary.kind = "Ok" THEN Some(binary.val.symbols) ELSE None)
  ELSE (IF library.kind = "Some" THEN Some(library.val.symbols) ELSE None)

SymbolsResolveByFormula ==
  \A k \in 1..Len(symbol_calls) :
    LET c == symbol_calls[k] IN
    c.ret.kind = "Ok" =>
      /\ DOMAIN c.ret.val = c.source.resolves \cap AllSymbols(runtime)
      /\ \A n \in DOMAIN c.ret.val :
           /\ c.ret.val[n] = ResolvedAddress(c)
           /\ MergedInto(c).kind = "Some" => MergedInto(c).val[n] = ResolvedAddress(c)

\* the source reports base=0, address=0x1000 and the region loads at 0x7f0000000000
ZeroBaseScenario(c) ==
  /\ c.ret.kind = "Ok"
  /\ c.source.resolves # {}
  /\ c.source.base = Zero
  /\ c.source.addr = U64(4096, 0, 0, 0)
  /\ c.offset = U64(0, 0, 32512, 0)

ConventionalLibs(T) ==
  IF T = "Python"
  THEN {"/tmp/_MEIOqzg01/libpython2.7.so.1.0", "./libpython2.7.so", "/usr/lib/libpython3.4d.so",
        "/usr/local/lib/libpython3.8m.so", "/usr/lib/libpython2.7u.so",
        "/usr/lib/libpython3.9.so.1.0"}
  ELSE {"./libruby2.7.so", "/usr/lib/libruby3.1.so", "/usr/local/lib/libruby3.1.so",
        "/usr/lib/libruby2.6.so"}

\* other libraries whose names contain the runtime's name
BindingLibs(T) ==
  IF T = "Python"
  THEN {"/usr/lib/libboost_python.so",
        "/usr/lib/x86_64-linux-gnu/libboost_python-py27.so.1.58.0",
        "/usr/lib/libboost_python-py35.so"}
  ELSE {"/usr/lib/libfoo_ruby.so", "/usr/lib/x86_64-linux-gnu/libfoo_ruby-27.so.1.58.0",
        "/usr/lib/libfoo_ruby-31.so"}

\* C10: on Linux and FreeBSD is_lib is true of every path that follows the
\* runtime's versioned shared-library convention and false of every binding
\* library that only contains the runtime's name.
C10_IsLibFollowsConvention ==
  (lib_query.kind = "Some" /\ target_os \in {"linux", "freebsd"}) =>
    /\ lib_query.val.path \in ConventionalLibs(runtime) => lib_query.val.ret
    /\ lib_query.val.path \in BindingLibs(runtime) => ~lib_query.val.ret

(***************************************************************************)
(* Library region selection.                                               *)
(***************************************************************************)
\* the binary step completed and the library scan of the memory map has run
LibraryScanned == binary.kind \in {"Ok", "Err"} /\ pc # "library"

\* the indices of the regions backed by a path matching library_regex() and
\* holding the platform's required permission
LibraryRegions ==
  {i \in 1..Len(maps.val) :
     /\ maps.val[i].filename.kind = "Some"
     /\ is_lib(runtime, target_os, maps.val[i].filename.val)
     /\ (target_os = "windows" => maps.val[i].read)
     /\ (target_os # "windows" => maps.val[i].exec)}

MapPaths ==
  {maps.val[i].filename.val : i \in {j \in 1..Len(maps.val) : maps.val[j].filename.kind = "Some"}}

\* regions [exec without path, exec with /usr/lib/libpython3.9.so.1.0] and an
\* executable path that no region maps
AnonymousThenLibrary ==
  /\ runtime = "Python"
  /\ target_os \in {"linux", "freebsd"}
  /\ filename = Some("/usr/bin/python3.9")
  /\ maps.kind = "Some"
  /\ Len(maps.val) = 2
  /\ maps.val[1].filename = None /\ maps.val[1].exec
  /\ maps.val[2].filename = Some("/usr/lib/libpython3.9.so.1.0") /\ maps.val[2].exec

\* C11: once the binary step has completed, whatever region it selected and
\* whether its parse succeeded or failed, the library is parsed from the first
\* region in map order with a path matching library_regex() and the
\* platform's permission (execute, or read on windows), with that region's
\* own path, start and size; no other region of the map is parsed as a
\* library; with regions [exec without path, exec with libpython3.9.so.1.0]
\* the binary is parsed from the first region and the library from the second.
C11_LibraryFromFirstMatchingRegion ==
  LibraryScanned =>
    /\ parse_calls[1].is_bin
    /\ \A k \in 2..Len(parse_calls) : ~parse_calls[k].is_bin
    /\ LibraryRegions = {} =>
         \A k \in 2..Len(parse_calls) : parse_calls[k].filename \notin MapPaths
    /\ LibraryRegions # {} =>
         LET i == CHOOSE i \in LibraryRegions : \A j \in LibraryRegions : i <= j IN
         /\ Len(parse_calls) = 2
         /\ parse_calls[2].filename = maps.val[i].filename.val
         /\ parse_calls[2].addr = maps.val[i].start
         /\ parse_calls[2].size = maps.val[i].size
    /\ AnonymousThenLibrary =>
         /\ parse_calls[1].addr = maps.val[1].start /\ parse_calls[1].size = maps.val[1].size
         /\ parse_calls[2].addr = maps.val[2].start /\ parse_calls[2].size = maps.val[2].size
         /\ parse_calls[2].filename = "/usr/lib/libpython3.9.so.1.0"

C11_Witness ==
  /\ AnonymousThenLibrary
  /\ Returned
  /\ MainParseFailed
  /\ result.val.binary = None
  /\ result.val.library.kind = "Some"
  /\ parse_calls[2].addr = maps.val[2].start

(***************************************************************************)
(* Termination of ProcessInfo::new by return.                              *)
(***************************************************************************)
\* the main binary parsed successfully on the anchor-offset platform and its
\* raw table lacks the anchor symbol, or places it below the region start
AnchorUnusable ==
  /\ target_os = "macos"
  /\ Len(parse_calls) >= 1
  /\ parse_calls[1].is_bin
  /\ parse_calls[1].ret.kind = "Ok"
  /\ \/ Anchor \notin DOMAIN parse_calls[1].ret.val.symbols
     \/ U64Sub(parse_calls[1].ret.val.symbols[Anchor], parse_calls[1].addr).overflow

\* C12: every finished run of new has returned a ProcessInfo or an error
\* value; in particular so has a run whose successfully parsed main binary
\* lacks the anchor symbol or has it below the region start.
C12_NewReturnsValueOrError ==
  /\ Done => result.kind \in {"Ok", "Err"}
  /\ (Done /\ AnchorUnusable) => result.kind \in {"Ok", "Err"}

====
